---- MODULE Spec2Model ----
(***************************************************************************)
(* Model of the yetii configuration engine: the typed schema with its      *)
(* serde defaults, the validators, the loader, the process-wide CONFIG     *)
(* state behind a RwLock, and the main / file-watcher control flow.        *)
(*                                                                         *)
(* Conventions.  Option<T>: None is <<>>, Some(x) is <<x>>.  Strings whose *)
(* emptiness or whitespace the code inspects (names, host, sql, cron, url) *)
(* are sequences of one-character strings; the other strings are TLA+      *)
(* strings.  A Result<(), ConfigError> is a record whose kind is "Ok" or   *)
(* the name of the ConfigError variant.                                    *)
(***************************************************************************)
EXTENDS Integers, Sequences, FiniteSets, TLC

(* ------------------------------------------------------------------ *)
(* Option and Result encodings                                         *)
(* ------------------------------------------------------------------ *)
None == <<>>

Some(x) == <<x>>

IsSome(o) == o # <<>>

Unwrap(o) == o[1]

\* Rust's derived ordering on Option<u32>: None < Some(_), Some(a) > Some(b) iff a > b.
OptGt(o, n) == IsSome(o) /\ Unwrap(o) > n

Ok == [kind |-> "Ok"]

MissingRequiredField(f) == [kind |-> "MissingRequiredField", field |-> f]

InvalidDatabaseType(s) == [kind |-> "InvalidDatabaseType", value |-> s]

InvalidSchedule(c) == [kind |-> "InvalidSchedule", cron |-> c]

InvalidTimeout(o) == [kind |-> "InvalidTimeout", timeout |-> o]

IoError(k) == [kind |-> "IoError", io |-> k]

NotInitialized == [kind |-> "NotInitialized"]

AlreadyInitialized == [kind |-> "AlreadyInitialized"]

PoisonedState == [kind |-> "PoisonedState"]

IsOk(r) == r.kind = "Ok"

\* The ? operator: the first error ends the function.
AndThen(r, next) == IF IsOk(r) THEN next ELSE r

(* ------------------------------------------------------------------ *)
(* Character-level string helpers                                      *)
(* ------------------------------------------------------------------ *)
IsWhitespace(c) == c \in {" ", "\t", "\n"}

\* str::is_empty
IsEmpty(s) == Len(s) = 0

RECURSIVE TrimStart(_)
TrimStart(s) ==
    IF Len(s) = 0 THEN s
    ELSE IF IsWhitespace(Head(s)) THEN TrimStart(Tail(s)) ELSE s

RECURSIVE TrimEnd(_)
TrimEnd(s) ==
    IF Len(s) = 0 THEN s
    ELSE IF IsWhitespace(s[Len(s)]) THEN TrimEnd(SubSeq(s, 1, Len(s) - 1)) ELSE s

\* str::trim
Trim(s) == TrimEnd(TrimStart(s))

\* str::split_whitespace().collect().len(): the number of maximal runs of
\* non-whitespace characters.
RECURSIVE CountTokens(_, _)
CountTokens(s, inToken) ==
    IF Len(s) = 0 THEN 0
    ELSE IF IsWhitespace(Head(s)) THEN CountTokens(Tail(s), FALSE)
    ELSE (IF inToken THEN 0 ELSE 1) + CountTokens(Tail(s), TRUE)

SplitWhitespaceLen(s) == CountTokens(s, FALSE)

(* ------------------------------------------------------------------ *)
(* Default value functions (config/utils.rs) and Default impls         *)
(* ------------------------------------------------------------------ *)
default_version == Some("1.0.0")

default_environment == "development"

default_max_connections == Some(10)

default_timeout_seconds == Some(30)

default_retry_attempts == Some(3)

default_error_action == "stop"

default_max_retries == 3

default_timezone == "UTC"

default_true == TRUE

default_false == FALSE

default_log_level == "info"

default_log_format == "json"

default_log_output == "console"

default_request_format == "json"

default_execution_mode == "sequential"

ConnectionConfigDefault ==
    [max_connections |-> default_max_connections,
     timeout_seconds |-> default_timeout_seconds,
     retry_attempts  |-> default_retry_attempts]

ErrorHandlingDefault ==
    [on_query_error     |-> default_error_action,
     on_transform_error |-> default_error_action,
     on_endpoint_error  |-> default_error_action,
     max_retries        |-> default_max_retries]

\* Mutant: the Default impl and the serde default of level disagree.
LoggingDefault_Debug ==
    [level     |-> "debug",
     format    |-> default_log_format,
     output    |-> default_log_output,
     file_path |-> None,
     rotation  |-> None]

LoggingDefault ==
    [level     |-> default_log_level,
     format    |-> default_log_format,
     output    |-> default_log_output,
     file_path |-> None,
     rotation  |-> None]

SecuritySettingsDefault ==
    [encrypt_config  |-> FALSE,
     validate_ssl    |-> FALSE,
     timeout_seconds |-> default_timeout_seconds]

GlobalSettingsDefault ==
    [environment    |-> default_environment,
     error_handling |-> ErrorHandlingDefault,
     logging        |-> LoggingDefault,
     security       |-> SecuritySettingsDefault]

TransformConfigDefault ==
    [enabled     |-> TRUE,
     mappings    |-> None,
     group_by    |-> None,
     filters     |-> None,
     conversions |-> None]

RequestConfigDefault ==
    [format              |-> default_request_format,
     batch_size          |-> Some(100),
     timeout_seconds     |-> Some(30),
     retry_attempts      |-> Some(3),
     retry_delay_seconds |-> Some(1),
     retry_backoff       |-> Some("exponential")]

ExecutionConfigDefault ==
    [mode                   |-> default_execution_mode,
     global_timeout_minutes |-> Some(60),
     state_management       |-> None,
     scheduler              |-> None]

(* ------------------------------------------------------------------ *)
(* Validators                                                          *)
(* ------------------------------------------------------------------ *)
DatabaseTypes == {"postgres", "mysql", "mssql", "oracle"}

\* Every variant of the enum is accepted; the catch-all arm is unreachable.
DatabaseTypeValidate(t) ==
    IF t \in DatabaseTypes THEN Ok ELSE InvalidDatabaseType(t)

ConnectionConfigValidate(p) ==
    IF p.max_connections = Some(0) \/ OptGt(p.max_connections, 1000)
    THEN InvalidTimeout(p.max_connections)
    ELSE IF OptGt(p.timeout_seconds, 300)
    THEN InvalidTimeout(p.timeout_seconds)
    ELSE Ok

DatabaseConfigValidate(d) ==
    IF IsEmpty(d.name) THEN MissingRequiredField("database.name")
    ELSE IF IsEmpty(d.host) THEN MissingRequiredField("database.host")
    ELSE IF IsEmpty(d.database) THEN MissingRequiredField("database.database")
    ELSE IF ~IsOk(DatabaseTypeValidate(d.db_type))
    THEN InvalidDatabaseType("database.type not supported")
    ELSE ConnectionConfigValidate(d.pool)

ErrorHandlingValidate(e) ==
    IF e.on_query_error \notin {"stop", "log_and_continue", "retry"}
    THEN InvalidDatabaseType(e.on_query_error)
    ELSE IF e.max_retries > 10
    THEN InvalidTimeout(Some(e.max_retries))
    ELSE Ok

LoggingValidate(l) ==
    IF l.level \notin {"trace", "debug", "info", "warn", "error"}
    THEN InvalidDatabaseType(l.level)
    ELSE IF l.format \notin {"json", "plain", "structured"}
    THEN InvalidDatabaseType(l.format)
    ELSE Ok

SecuritySettingsValidate(s) ==
    IF OptGt(s.timeout_seconds, 600)
    THEN InvalidTimeout(s.timeout_seconds)
    ELSE Ok

\* Mutant: logging is checked before error handling.
GlobalSettingsValidate_LoggingFirst(g) ==
    IF g.environment \notin {"development", "staging", "production"}
    THEN InvalidDatabaseType(g.environment)
    ELSE AndThen(LoggingValidate(g.logging),
         AndThen(ErrorHandlingValidate(g.error_handling),
                 SecuritySettingsValidate(g.security)))

GlobalSettingsValidate(g) ==
    IF g.environment \notin {"development", "staging", "production"}
    THEN InvalidDatabaseType(g.environment)
    ELSE AndThen(ErrorHandlingValidate(g.error_handling),
         AndThen(LoggingValidate(g.logging),
                 SecuritySettingsValidate(g.security)))

\* Mutant: a cron of 6 fields is not accepted.
ScheduleConfigValidate_FiveOnly(s) ==
    IF SplitWhitespaceLen(s.cron) # 5
    THEN InvalidSchedule(s.cron)
    ELSE Ok

\* Mutant: the cron of a disabled schedule is not checked.
ScheduleConfigValidate_OnlyWhenEnabled(s) ==
    IF s.enabled /\ SplitWhitespaceLen(s.cron) # 5 /\ SplitWhitespaceLen(s.cron) # 6
    THEN InvalidSchedule(s.cron)
    ELSE Ok

ScheduleConfigValidate(s) ==
    IF SplitWhitespaceLen(s.cron) # 5 /\ SplitWhitespaceLen(s.cron) # 6
    THEN InvalidSchedule(s.cron)
    ELSE Ok

SqlQueryValidate(q) ==
    IF IsEmpty(Trim(q.sql)) THEN MissingRequiredField("query.sql") ELSE Ok

TransformConfigValidate(t) == Ok

EndpointConfigValidate(e) ==
    IF IsEmpty(e.url) THEN MissingRequiredField("endpoint.url")
    ELSE IF e.method \notin {"GET", "POST", "PUT", "PATCH", "DELETE", "WRITE"}
    THEN InvalidDatabaseType(e.method)
    ELSE Ok

QueryConfigValidate(q) ==
    IF IsEmpty(q.name) THEN MissingRequiredField("query.name")
    ELSE AndThen(IF IsSome(q.schedule)
                 THEN ScheduleConfigValidate(Unwrap(q.schedule)) ELSE Ok,
         AndThen(SqlQueryValidate(q.query),
         AndThen(TransformConfigValidate(q.transform),
                 EndpointConfigValidate(q.endpoint))))

ExecutionConfigValidate(x) ==
    IF x.mode \notin {"parallel", "sequential"}
    THEN InvalidDatabaseType(x.mode)
    ELSE Ok

\* for query in &self.queries { query.validate()?; }
RECURSIVE ValidateQueries(_)
ValidateQueries(qs) ==
    IF Len(qs) = 0 THEN Ok
    ELSE AndThen(QueryConfigValidate(Head(qs)), ValidateQueries(Tail(qs)))

\* YetiiConfig::validate
Validate(c) ==
    IF ~IsSome(c.version) THEN MissingRequiredField("version")
    ELSE AndThen(DatabaseConfigValidate(c.databases),
         AndThen(GlobalSettingsValidate(c.global_settings),
         AndThen(ValidateQueries(c.queries),
                 ExecutionConfigValidate(c.execution))))

(* ------------------------------------------------------------------ *)
(* Deserialization (serde_yaml::from_str with the #[serde(default)]s)  *)
(*                                                                     *)
(* A YAML mapping is a record holding only the keys the text gives.    *)
(* A key of an Option field that is given holds the Option's value.    *)
(* ------------------------------------------------------------------ *)
Has(r, k) == k \in DOMAIN r

Get(r, k, d) == IF k \in DOMAIN r THEN r[k] ELSE d

ConnectionConfigOf(r) ==
    [max_connections |-> Get(r, "max_connections", default_max_connections),
     timeout_seconds |-> Get(r, "timeout_seconds", default_timeout_seconds),
     retry_attempts  |-> Get(r, "retry_attempts", default_retry_attempts)]

\* port is a u16 and type one of the enum's variants: anything else is a
\* deserialization error.
DatabaseConfigParses(r) ==
    /\ {"name", "type", "host", "port", "database", "auth"} \subseteq DOMAIN r
    /\ r.type \in DatabaseTypes
    /\ r.port \in 0..65535

DatabaseConfigOf(r) ==
    [name              |-> r.name,
     db_type           |-> r.type,
     connection_string |-> Get(r, "connection_string", None),
     host              |-> r.host,
     port              |-> r.port,
     database          |-> r.database,
     schema            |-> Get(r, "schema", None),
     auth              |-> r.auth,
     pool              |-> IF Has(r, "pool") THEN ConnectionConfigOf(r.pool)
                           ELSE ConnectionConfigDefault]

ErrorHandlingOf(r) ==
    [on_query_error     |-> Get(r, "on_query_error", default_error_action),
     on_transform_error |-> Get(r, "on_transform_error", default_error_action),
     on_endpoint_error  |-> Get(r, "on_endpoint_error", default_error_action),
     max_retries        |-> Get(r, "max_retries", default_max_retries)]

LoggingOf(r) ==
    [level     |-> Get(r, "level", default_log_level),
     format    |-> Get(r, "format", default_log_format),
     output    |-> Get(r, "output", default_log_output),
     file_path |-> Get(r, "file_path", None),
     rotation  |-> Get(r, "rotation", None)]

SecuritySettingsOf(r) ==
    [encrypt_config  |-> Get(r, "encrypt_config", default_false),
     validate_ssl    |-> Get(r, "validate_ssl", default_true),
     timeout_seconds |-> Get(r, "timeout_seconds", default_timeout_seconds)]

GlobalSettingsOf(r) ==
    [environment    |-> Get(r, "environment", default_environment),
     error_handling |-> IF Has(r, "error_handling")
                        THEN ErrorHandlingOf(r.error_handling)
                        ELSE ErrorHandlingDefault,
     logging        |-> IF Has(r, "logging") THEN LoggingOf(r.logging)
                        ELSE LoggingDefault,
     security       |-> IF Has(r, "security") THEN SecuritySettingsOf(r.security)
                        ELSE SecuritySettingsDefault]

ScheduleConfigParses(r) == Has(r, "cron")

ScheduleConfigOf(r) ==
    [cron     |-> r.cron,
     timezone |-> Get(r, "timezone", default_timezone),
     enabled  |-> Get(r, "enabled", default_true)]

SqlQueryParses(r) == Has(r, "sql")

SqlQueryOf(r) ==
    [sql        |-> r.sql,
     parameters |-> Get(r, "parameters", None),
     validation |-> Get(r, "validation", None)]

TransformConfigOf(r) ==
    [enabled     |-> Get(r, "enabled", default_true),
     mappings    |-> Get(r, "mappings", None),
     group_by    |-> Get(r, "group_by", None),
     filters     |-> Get(r, "filters", None),
     conversions |-> Get(r, "conversions", None)]

RequestConfigOf(r) ==
    [format              |-> Get(r, "format", default_request_format),
     batch_size          |-> Get(r, "batch_size", None),
     timeout_seconds     |-> Get(r, "timeout_seconds", None),
     retry_attempts      |-> Get(r, "retry_attempts", None),
     retry_delay_seconds |-> Get(r, "retry_delay_seconds", None),
     retry_backoff       |-> Get(r, "retry_backoff", None)]

EndpointConfigParses(r) == {"url", "method"} \subseteq DOMAIN r

EndpointConfigOf(r) ==
    [url      |-> r.url,
     method   |-> r.method,
     auth     |-> Get(r, "auth", None),
     headers  |-> Get(r, "headers", None),
     request  |-> IF Has(r, "request") THEN RequestConfigOf(r.request)
                  ELSE RequestConfigDefault,
     response |-> Get(r, "response", None)]

QueryConfigParses(r) ==
    /\ {"name", "description", "query", "endpoint"} \subseteq DOMAIN r
    /\ SqlQueryParses(r.query)
    /\ EndpointConfigParses(r.endpoint)
    /\ (Has(r, "schedule") /\ IsSome(r.schedule))
          => ScheduleConfigParses(Unwrap(r.schedule))

QueryConfigOf(r) ==
    [name        |-> r.name,
     description |-> r.description,
     enabled     |-> Get(r, "enabled", default_true),
     database    |-> Get(r, "database", None),
     schedule    |-> IF Has(r, "schedule") /\ IsSome(r.schedule)
                     THEN Some(ScheduleConfigOf(Unwrap(r.schedule)))
                     ELSE None,
     query       |-> SqlQueryOf(r.query),
     transform   |-> IF Has(r, "transform") THEN TransformConfigOf(r.transform)
                     ELSE TransformConfigDefault,
     endpoint    |-> EndpointConfigOf(r.endpoint)]

ExecutionConfigOf(r) ==
    [mode                   |-> Get(r, "mode", default_execution_mode),
     global_timeout_minutes |-> Get(r, "global_timeout_minutes", None),
     state_management       |-> Get(r, "state_management", None),
     scheduler              |-> Get(r, "scheduler", None)]

\* EnvironmentOverride: three optional fields; a databases override must be
\* a whole DatabaseConfig.
EnvironmentOverrideParses(r) ==
    Has(r, "databases") => DatabaseConfigParses(r.databases)

EnvironmentOverrideOf(r) ==
    [global_settings |-> IF Has(r, "global_settings")
                         THEN Some(GlobalSettingsOf(r.global_settings))
                         ELSE None,
     databases       |-> IF Has(r, "databases")
                         THEN Some(DatabaseConfigOf(r.databases))
                         ELSE None,
     monitoring      |-> Get(r, "monitoring", None)]

YetiiConfigParses(r) ==
    /\ {"databases", "queries"} \subseteq DOMAIN r
    /\ DatabaseConfigParses(r.databases)
    /\ \A i \in 1..Len(r.queries) : QueryConfigParses(r.queries[i])
    /\ Has(r, "environments")
          => \A k \in DOMAIN r.environments :
                EnvironmentOverrideParses(r.environments[k])

YetiiConfigOf(r) ==
    [version         |-> Get(r, "version", default_version),
     name            |-> Get(r, "name", None),
     description     |-> Get(r, "description", None),
     databases       |-> DatabaseConfigOf(r.databases),
     global_settings |-> IF Has(r, "global_settings")
                         THEN GlobalSettingsOf(r.global_settings)
                         ELSE GlobalSettingsDefault,
     queries         |-> [i \in 1..Len(r.queries) |-> QueryConfigOf(r.queries[i])],
     execution       |-> IF Has(r, "execution") THEN ExecutionConfigOf(r.execution)
                         ELSE ExecutionConfigDefault,
     monitoring      |-> Get(r, "monitoring", None),
     environments    |-> IF Has(r, "environments")
                         THEN Some([k \in DOMAIN r.environments |->
                                      EnvironmentOverrideOf(r.environments[k])])
                         ELSE None]

(* ------------------------------------------------------------------ *)
(* Environment overlay                                                 *)
(* ------------------------------------------------------------------ *)
\* Mutant: the override's global settings are merged into the base's field by
\* field: the environment tag of the base is kept.
ForEnvironment_DeepMerge(c, e) ==
    IF IsSome(c.environments) /\ e \in DOMAIN Unwrap(c.environments)
    THEN LET o == Unwrap(c.environments)[e] IN
         [c EXCEPT
            !.global_settings = IF IsSome(o.global_settings)
                                THEN [Unwrap(o.global_settings) EXCEPT
                                        !.environment = c.global_settings.environment]
                                ELSE @,
            !.databases       = IF IsSome(o.databases)
                                THEN Unwrap(o.databases) ELSE @,
            !.monitoring      = IF IsSome(o.monitoring)
                                THEN Some(Unwrap(o.monitoring)) ELSE @]
    ELSE c

\* Mutant: a name the map does not have resolves to the default global
\* settings.
ForEnvironment_DefaultsWhenUnknown(c, e) ==
    IF IsSome(c.environments) /\ e \in DOMAIN Unwrap(c.environments)
    THEN LET o == Unwrap(c.environments)[e] IN
         [c EXCEPT
            !.global_settings = IF IsSome(o.global_settings)
                                THEN Unwrap(o.global_settings) ELSE @,
            !.databases       = IF IsSome(o.databases)
                                THEN Unwrap(o.databases) ELSE @,
            !.monitoring      = IF IsSome(o.monitoring)
                                THEN Some(Unwrap(o.monitoring)) ELSE @]
    ELSE [c EXCEPT !.global_settings = GlobalSettingsDefault]

\* YetiiConfig::for_environment(&self, env): a clone of c in which the
\* override found under env replaces the fields it supplies.
ForEnvironment(c, e) ==
    IF IsSome(c.environments) /\ e \in DOMAIN Unwrap(c.environments)
    THEN LET o == Unwrap(c.environments)[e] IN
         [c EXCEPT
            !.global_settings = IF IsSome(o.global_settings)
                                THEN Unwrap(o.global_settings) ELSE @,
            !.databases       = IF IsSome(o.databases)
                                THEN Unwrap(o.databases) ELSE @,
            !.monitoring      = IF IsSome(o.monitoring)
                                THEN Some(Unwrap(o.monitoring)) ELSE @]
    ELSE c

(* ------------------------------------------------------------------ *)
(* The file at the configured path, and the loader                     *)
(* ------------------------------------------------------------------ *)
FileAbsent == [kind |-> "absent"]

\* The path exists but read_to_string fails (permissions, not UTF-8, ...).
FileUnreadable == [kind |-> "unreadable"]

\* Text that is not a YAML mapping at all.
FileGarbage == [kind |-> "garbage"]

FileYaml(r) == [kind |-> "yaml", raw |-> r]

LoadOk(c) == [kind |-> "Ok", config |-> c]

\* YetiiConfig::from_file(Some(path)), on the content f of the file at path:
\* read, deserialize, return.  It does not call validate().
FromFile(f) ==
    IF f.kind = "absent" THEN IoError("NotFound")
    ELSE IF f.kind = "unreadable" THEN IoError("NotFound")
    ELSE IF f.kind = "garbage" THEN IoError("InvalidData")
    ELSE IF ~YetiiConfigParses(f.raw) THEN IoError("InvalidData")
    ELSE LoadOk(YetiiConfigOf(f.raw))

(* ------------------------------------------------------------------ *)
(* Sample file contents                                                *)
(* ------------------------------------------------------------------ *)
RawDatabase ==
    [name |-> <<"e", "r", "p">>, type |-> "postgres", host |-> <<"h">>,
     port |-> 5432, database |-> <<"d", "b">>,
     auth |-> [username |-> None, password |-> None]]

RawQuery ==
    [name |-> <<"q">>, description |-> "sync",
     query |-> [sql |-> <<"s", " ", "t">>],
     endpoint |-> [url |-> <<"u">>, method |-> "POST"]]

\* Only the required keys: a valid document once defaulted.
RawA == [databases |-> RawDatabase, queries |-> <<>>]

\* A second valid document; it differs from RawA in version, databases,
\* global_settings, queries and execution.
RawB ==
    [version         |-> Some("2.0.0"),
     databases       |-> [RawDatabase EXCEPT !.type = "mysql", !.port = 3306],
     global_settings |-> [environment |-> "production"],
     queries         |-> <<RawQuery>>,
     execution       |-> [mode |-> "parallel"]]

\* Deserializes, but logging.format is not one validate() accepts.
RawXml ==
    [databases       |-> RawDatabase,
     global_settings |-> [logging |-> [format |-> "xml"]],
     queries         |-> <<>>]

\* A YAML mapping without the required key databases.
RawNoDatabases == [queries |-> <<>>]

FileContents ==
    {FileAbsent, FileUnreadable, FileGarbage, FileYaml(RawA), FileYaml(RawB),
     FileYaml(RawXml), FileYaml(RawNoDatabases)}

\* The contents written while the API is driven by several callers at once.
ApiFileContents == {FileGarbage, FileYaml(RawA), FileYaml(RawB)}

(* ------------------------------------------------------------------ *)
(* Documents given to the loader, the validator and the overlay        *)
(* ------------------------------------------------------------------ *)
\* The longest list of queries in those documents.
MaxQueries == 2

\* The sections of a document that can each hold a value validate() rejects.
Faults ==
    {"version", "database", "environment", "error_handling", "logging",
     "security", "execution"}

\* The parts of a query that can each hold a value validate() rejects.
QueryFaults == {"name", "schedule", "sql", "endpoint"}

\* A query that is wrong in the parts S, and right in the others.
RawQueryWith(S) ==
    [name        |-> IF "name" \in S THEN <<>> ELSE <<"q">>,
     description |-> "sync",
     schedule    |-> IF "schedule" \in S
                     THEN Some([cron |-> <<"*", " ", "*">>])
                     ELSE None,
     query       |-> [sql |-> IF "sql" \in S THEN <<" ", "\t">> ELSE <<"s", " ", "t">>],
     endpoint    |-> [url    |-> IF "endpoint" \in S THEN <<>> ELSE <<"u">>,
                      method |-> "POST"]]

QueryVariants ==
    {RawQueryWith(S) :
        S \in {{}, {"name"}, {"schedule"}, {"sql"}, {"endpoint"},
               {"name", "endpoint"}, {"schedule", "sql"}, {"sql", "endpoint"}}}

\* A document that is wrong in the sections S, with the queries qs.
RawWith(S, qs) ==
    [version         |-> IF "version" \in S THEN None ELSE Some("1.0.0"),
     databases       |-> IF "database" \in S
                         THEN [RawDatabase EXCEPT !.host = <<>>]
                         ELSE RawDatabase,
     global_settings |->
        [environment    |-> IF "environment" \in S THEN "test" ELSE "staging",
         error_handling |-> [max_retries |-> IF "error_handling" \in S
                                             THEN 11 ELSE 10],
         logging        |-> [format |-> IF "logging" \in S THEN "xml" ELSE "plain"],
         security       |-> [timeout_seconds |-> IF "security" \in S
                                                 THEN Some(601) ELSE Some(600)]],
     queries         |-> qs,
     execution       |-> [mode |-> IF "execution" \in S THEN "batch" ELSE "parallel"]]

\* Documents wrong in up to two sections, with up to MaxQueries queries.
FaultyDocuments ==
    {RawWith(S, qs) :
        S \in {T \in SUBSET Faults : Cardinality(T) <= 2},
        qs \in UNION {[1..k -> QueryVariants] : k \in 0..MaxQueries}}

\* Strings that are empty, blank, or not.
Texts == {<<>>, <<" ">>, <<"\t", " ">>, <<" ", "x">>, <<"x">>}

\* Documents in which one required string is one of Texts.
TextDocuments ==
    {[databases |-> [RawDatabase EXCEPT !.name = x], queries |-> <<RawQuery>>] : x \in Texts}
    \cup {[databases |-> [RawDatabase EXCEPT !.host = x], queries |-> <<RawQuery>>] : x \in Texts}
    \cup {[databases |-> [RawDatabase EXCEPT !.database = x], queries |-> <<RawQuery>>] : x \in Texts}
    \cup {[databases |-> RawDatabase, queries |-> <<[RawQuery EXCEPT !.name = x]>>] : x \in Texts}
    \cup {[databases |-> RawDatabase, queries |-> <<[RawQuery EXCEPT !.query.sql = x]>>] : x \in Texts}
    \cup {[databases |-> RawDatabase, queries |-> <<[RawQuery EXCEPT !.endpoint.url = x]>>] : x \in Texts}

\* Pool sizes and timeouts at and around the limits of ConnectionConfig.
PoolValues == {None, Some(0), Some(1), Some(300), Some(301), Some(1000), Some(1001)}

PoolDocuments ==
    {[databases |-> [name |-> <<"e", "r", "p">>, type |-> "postgres",
                     host |-> <<"h">>, port |-> 5432, database |-> <<"d", "b">>,
                     auth |-> [username |-> None, password |-> None],
                     pool |-> [max_connections |-> m, timeout_seconds |-> t]],
      queries   |-> <<>>] : m \in PoolValues, t \in PoolValues}

\* Ports at and around the limits of u16.
Ports == {0, 1, 5432, 65535, 65536}

\* Documents that give the required keys only.
MinimalDocuments ==
    {[databases |-> [RawDatabase EXCEPT !.type = ty, !.port = po], queries |-> qs] :
        ty \in DatabaseTypes, po \in Ports, qs \in {<<>>, <<RawQuery>>}}

MonitoringA == [enabled |-> TRUE, metrics |-> None, health_check |-> None,
                notifications |-> None]

MonitoringB == [enabled |-> FALSE, metrics |-> None, health_check |-> None,
                notifications |-> None]

\* An override that supplies the fields K.
RawOverride(K) ==
    [k \in K |->
        IF k = "global_settings" THEN [logging |-> [level |-> "debug"]]
        ELSE IF k = "databases" THEN [RawDatabase EXCEPT !.host = <<"p">>, !.port = 6432]
        ELSE Some(MonitoringB)]

OverrideKeys == SUBSET {"global_settings", "databases", "monitoring"}

\* The environments maps: one for prod only, one for prod and staging.
EnvironmentMaps ==
    {[e \in {"prod"} |-> RawOverride(K)] : K \in OverrideKeys}
    \cup {[e \in {"prod", "staging"} |->
              IF e = "prod" THEN RawOverride(K) ELSE RawOverride({"monitoring"})] :
            K \in OverrideKeys}

\* Base documents with and without monitoring and an environments map.
OverlayDocuments ==
    {RawB, [RawB EXCEPT !.queries = <<>>]}
    \cup {[version |-> Some("2.0.0"), databases |-> RawDatabase,
           global_settings |-> [environment |-> "production"],
           queries |-> <<RawQuery>>, environments |-> m] : m \in EnvironmentMaps}
    \cup {[version |-> Some("2.0.0"), databases |-> RawDatabase,
           global_settings |-> [environment |-> "production"],
           queries |-> <<RawQuery>>, monitoring |-> Some(MonitoringA),
           environments |-> m] : m \in EnvironmentMaps}

\* Values of the three error actions: the accepted ones and one that is not.
Actions == {"stop", "log_and_continue", "retry", "ignore"}

\* Documents that give the three error actions and max_retries.
ActionDocuments ==
    {[databases       |-> RawDatabase,
      global_settings |->
         [error_handling |-> [on_query_error     |-> q,
                              on_transform_error |-> t,
                              on_endpoint_error  |-> e,
                              max_retries        |-> m]],
      queries         |-> <<>>] : q \in Actions, t \in Actions, e \in Actions,
                                  m \in {10, 11}}

\* A cron string of n fields, each "*", separated by single spaces.
RECURSIVE CronOf(_)
CronOf(n) ==
    IF n = 0 THEN <<>>
    ELSE IF n = 1 THEN <<"*">>
    ELSE CronOf(n - 1) \o <<" ", "*">>

\* Cron strings of no field, of 4 to 7 fields, and of 5 fields with more
\* whitespace around and between them.
Crons ==
    {<<>>, <<" ">>, CronOf(4), CronOf(5), CronOf(6), CronOf(7),
     <<" ", "\t">> \o CronOf(2) \o <<" ", " ">> \o CronOf(3) \o <<" ">>}

\* The schedule key of a query: a schedule with a cron and, or not, the
\* enabled flag.
RawSchedules ==
    {[cron |-> c] : c \in Crons}
    \cup {[cron |-> c, enabled |-> b] : c \in Crons, b \in BOOLEAN}

\* A query that is valid but for its schedule, which is absent, null or given.
ScheduleQueries ==
    {RawQuery, [name |-> <<"q">>, description |-> "sync", schedule |-> None,
                query |-> RawQuery.query, endpoint |-> RawQuery.endpoint]}
    \cup {[name |-> <<"q">>, description |-> "sync", schedule |-> Some(sc),
            query |-> RawQuery.query, endpoint |-> RawQuery.endpoint] :
              sc \in RawSchedules}

\* The first of two queries in ScheduleDocuments: without a schedule, with a
\* well-formed one, enabled or not, and with a disabled one of 4 fields.
FirstScheduleQueries ==
    {q \in ScheduleQueries :
        \/ ~Has(q, "schedule")
        \/ /\ Has(q, "schedule")
           /\ IsSome(q.schedule)
           /\ Unwrap(q.schedule) \in
                 {[cron |-> CronOf(6)],
                  [cron |-> CronOf(5), enabled |-> FALSE],
                  [cron |-> CronOf(4), enabled |-> FALSE]}}

\* Documents that are valid but for the schedules of their one or two queries.
ScheduleDocuments ==
    {[databases |-> RawDatabase, queries |-> <<q>>] : q \in ScheduleQueries}
    \cup {[databases |-> RawDatabase, queries |-> <<q1, q2>>] :
            q1 \in FirstScheduleQueries, q2 \in ScheduleQueries}

\* Values of execution.global_timeout_minutes: null, zero and positive.
TimeoutMinutes == {None, Some(0), Some(1), Some(60)}

\* Documents that give execution.mode and execution.global_timeout_minutes,
\* or the mode alone.
ExecutionDocuments ==
    {[databases |-> RawDatabase, queries |-> <<>>,
      execution |-> [mode |-> m, global_timeout_minutes |-> t]] :
        m \in {"parallel", "sequential", "batch"}, t \in TimeoutMinutes}
    \cup {[databases |-> RawDatabase, queries |-> <<>>, execution |-> [mode |-> m]] :
            m \in {"parallel", "sequential", "batch"}}

\* Documents of two valid queries, named alike or not.
NameDocuments ==
    {[databases |-> RawDatabase,
      queries   |-> <<[RawQuery EXCEPT !.name = a], [RawQuery EXCEPT !.name = b]>>] :
        a \in {<<"q">>, <<"r">>}, b \in {<<"q">>, <<"r">>}}

\* The names for_environment is called with: two keys and a name no map has.
EnvNames == {"prod", "staging", "staging2"}

\* The files and environment names the functions are applied to.
LibInputs ==
    ({FileYaml(r) : r \in FaultyDocuments \cup TextDocuments \cup PoolDocuments
                          \cup MinimalDocuments \cup ActionDocuments
                          \cup ScheduleDocuments \cup ExecutionDocuments
                          \cup NameDocuments}
        \X {"prod"})
    \cup ({FileYaml(r) : r \in OverlayDocuments} \X EnvNames)
    \cup ({FileAbsent, FileUnreadable, FileGarbage, FileYaml(RawNoDatabases)} \X {"prod"})

(* ------------------------------------------------------------------ *)
(* The document the init command writes (commands/initialize.rs)       *)
(* ------------------------------------------------------------------ *)
\* The names create_default_config is given; main gives the empty one.
ConfigNames == {"", "yetii.yaml", "erp sync"}

\* "0 */6 * * *"
ExampleCron ==
        <<"0", " ", "*", "/", "6", " ", "*", " ", "*", " ", "*">>

\* The SELECT of the example query, with its line breaks.
ExampleSql ==
        <<"S", "E", "L", "E", "C", "T", " ", "\n", " ", " ", "c", "u", "s",
          "t", "o", "m", "e", "r", "_", "i", "d", ",", "\n", " ", " ", "c",
          "u", "s", "t", "o", "m", "e", "r", "_", "n", "a", "m", "e", ",",
          "\n", " ", " ", "e", "m", "a", "i", "l", ",", "\n", " ", " ", "c",
          "r", "e", "a", "t", "e", "d", "_", "a", "t", "\n", "F", "R", "O",
          "M", " ", "c", "u", "s", "t", "o", "m", "e", "r", "s", " ", "\n",
          "W", "H", "E", "R", "E", " ", "u", "p", "d", "a", "t", "e", "d",
          "_", "a", "t", " ", ">", " ", "$", "l", "a", "s", "t", "_", "r",
          "u", "n", "_", "t", "i", "m", "e", "\n", "O", "R", "D", "E", "R",
          " ", "B", "Y", " ", "u", "p", "d", "a", "t", "e", "d", "_", "a",
          "t">>

\* "https://api.example.com/customers"
ExampleUrl ==
        <<"h", "t", "t", "p", "s", ":", "/", "/", "a", "p", "i", ".", "e",
          "x", "a", "m", "p", "l", "e", ".", "c", "o", "m", "/", "c", "u",
          "s", "t", "o", "m", "e", "r", "s">>

\* Mutant: the example schedule has an hourly cron of 4 fields.
ExampleSchedule_FourFields ==
    [cron |-> <<"0", " ", "*", " ", "*", " ", "*">>, timezone |-> "UTC",
     enabled |-> TRUE]

\* The schedule of the example query.
ExampleSchedule ==
    [cron |-> ExampleCron, timezone |-> "UTC", enabled |-> TRUE]

\* create_default_config(config_name)
CreateDefaultConfig(config_name) ==
    [version         |-> Some("1.0.0"),
     name            |-> Some(config_name),
     description     |-> Some("Yetii configuration for ERP data integration and transformation"),
     databases       |->
        [name              |-> <<"m", "a", "i", "n", "_", "e", "r", "p">>,  \* "main_erp"
         db_type           |-> "postgres",
         connection_string |-> None,
         host              |-> <<"l", "o", "c", "a", "l", "h", "o", "s", "t">>,  \* "localhost"
         port              |-> 5432,
         database          |-> <<"e", "r", "p", "_", "d", "b">>,  \* "erp_db"
         schema            |-> Some("public"),
         auth              |-> [username |-> Some("erp_user"),
                                password |-> Some("${ERP_PASSWORD}")],
         pool              |-> [max_connections |-> Some(10),
                                timeout_seconds |-> Some(30),
                                retry_attempts  |-> Some(3)]],
     global_settings |->
        [environment    |-> "development",
         error_handling |-> [on_query_error     |-> "log_and_continue",
                             on_transform_error |-> "stop",
                             on_endpoint_error  |-> "retry",
                             max_retries        |-> 3],
         logging        |-> [level     |-> "info",
                             format    |-> "json",
                             output    |-> "file",
                             file_path |-> Some("./logs/yetii.log"),
                             rotation  |-> Some([max_size_mb |-> 100,
                                                 max_files   |-> 10])],
         security       |-> [encrypt_config  |-> FALSE,
                             validate_ssl    |-> TRUE,
                             timeout_seconds |-> Some(300)]],
     queries         |->
        <<[name        |-> \* "customer_data_sync"
                           <<"c", "u", "s", "t", "o", "m", "e", "r", "_", "d",
                             "a", "t", "a", "_", "s", "y", "n", "c">>,
           description |-> "Sync customer data from ERP to external system",
           enabled     |-> TRUE,
           database    |-> Some("main_erp"),
           schedule    |-> Some(ExampleSchedule),
           query       |->
              [sql        |-> ExampleSql,
               parameters |-> Some([p \in {"last_run_time"} |->
                                      [param_type |-> "timestamp",
                                       default    |-> Some("1970-01-01T00:00:00Z"),
                                       source     |-> Some("state_file")]]),
               validation |-> Some([strict_mapping         |-> Some(TRUE),
                                    warn_unmapped_columns  |-> Some(TRUE),
                                    validate_filter_fields |-> Some(TRUE)])],
           transform   |->
              [enabled     |-> TRUE,
               mappings    |-> Some([id    |-> "customer_id",
                                     name  |-> "customer_name",
                                     email |-> "email_address"]),
               group_by    |-> None,
               filters     |-> Some(<<[field     |-> "email",
                                       condition |-> "not_null",
                                       value     |-> None]>>),
               conversions |-> Some([c \in {"created_at"} |->
                                       [from   |-> "timestamp",
                                        to     |-> "iso8601_string",
                                        format |-> None]])],
           endpoint    |->
              [url      |-> ExampleUrl,
               method   |-> "POST",
               auth     |-> Some([kind        |-> "Bearer",
                                  token       |-> "${API_TOKEN}",
                                  header_name |-> Some("Authorization")]),
               headers  |-> Some([h \in {"Content-Type", "X-Source"} |->
                                    IF h = "Content-Type" THEN "application/json"
                                    ELSE "yetii-erp-sync"]),
               request  |-> [format              |-> "json",
                             batch_size          |-> Some(100),
                             timeout_seconds     |-> Some(30),
                             retry_attempts      |-> Some(3),
                             retry_delay_seconds |-> Some(5),
                             retry_backoff       |-> Some("exponential")],
               response |-> Some([success_codes     |-> <<200, 201, 202>>,
                                  handle_duplicates |-> "skip"])]]>>,
     execution       |->
        [mode                   |-> "parallel",
         global_timeout_minutes |-> Some(60),
         state_management       |-> Some([enabled       |-> TRUE,
                                          state_file    |-> "./state/yetii_state.json",
                                          backup_states |-> 5]),
         scheduler              |-> Some([enabled             |-> TRUE,
                                          max_concurrent_jobs |-> 5,
                                          job_timeout_minutes |-> 30,
                                          missed_job_policy   |-> "skip"])],
     monitoring      |->
        Some([enabled       |-> TRUE,
              metrics       |-> Some([enabled          |-> TRUE,
                                      endpoint         |-> "http://localhost:9090/metrics",
                                      interval_seconds |-> 30]),
              health_check  |-> Some([enabled  |-> TRUE,
                                      endpoint |-> "/health",
                                      port     |-> 8080]),
              notifications |-> Some([on_failure |-> TRUE,
                                      on_success |-> FALSE,
                                      channels   |->
                                         <<[kind |-> "Webhook",
                                            url  |-> "https://hooks.slack.com/services/..."]>>])]),
     environments    |-> None]

(* ------------------------------------------------------------------ *)
(* Threads                                                             *)
(* ------------------------------------------------------------------ *)
Main == <<"main">>

Watcher == <<"watcher">>

\* Callers of the config module's public functions other than main and the
\* watcher: two that load and reload, two that read.
Writers == {<<"writer", "a">>, <<"writer", "b">>}

Readers == {<<"reader", "a">>, <<"reader", "b">>}

Threads == {Main, Watcher} \cup Writers \cup Readers

Commands == {"init", "odbc", "run", "check-config"}

EventKinds == {"Modify", "Other", "Error"}

\* The longest the notification channel gets in the model.
MaxQueue == 2

NoResult == [kind |-> "none"]

\* main and the watcher never resolve an environment.
NoEnv == ""

(* ------------------------------------------------------------------ *)
(* State                                                               *)
(* ------------------------------------------------------------------ *)
VARIABLES
    env,          \* the environment name given to for_environment
    command,      \* the CLI command main was started with
    file,         \* the content of the file at the configured path
    chan,         \* the watcher's mpsc channel: notifications not yet received
    config,       \* CONFIG: None until initialized, then Some(document)
    lock,         \* CONFIG's RwLock: its writer (an Option) and its readers
    poisoned,     \* the RwLock's poison flag
    pc,           \* each thread's position
    loc,          \* each thread's local document inside a call (an Option)
    snap,         \* the document each thread's last get_config returned
    ret,          \* the result of each thread's last call
    lastAcquired  \* history: the document of the last reload to take the write lock

vars ==
    <<env, command, file, chan, config, lock, poisoned, pc, loc, snap, ret, lastAcquired>>

InitShared ==
    /\ chan = <<>>
    /\ config = None
    /\ lock = [writer |-> None, readers |-> {}]
    /\ poisoned = FALSE
    /\ pc = [t \in Threads |->
                IF t = Main THEN "m_start"
                ELSE IF t = Watcher THEN "w_off" ELSE "idle"]
    /\ loc = [t \in Threads |-> None]
    /\ snap = [t \in Threads |-> None]
    /\ ret = [t \in Threads |-> NoResult]
    /\ lastAcquired = None

Init ==
    /\ env = NoEnv
    /\ command \in Commands
    /\ file \in FileContents
    /\ InitShared

(* ------------------------------------------------------------------ *)
(* CONFIG: a RwLock around the document                                *)
(* ------------------------------------------------------------------ *)
RwLockCanRead(l) == l.writer = None

\* Mutant: a writer that does not wait for the readers to leave.
RwLockCanWrite_IgnoresReaders(l) == l.writer = None

\* Mutant: a writer that does not wait for the other writer to leave.
RwLockCanWrite_IgnoresWriter(l) == l.readers = {}

RwLockCanWrite(l) == l.writer = None /\ l.readers = {}

\* is_config_initialized()
IsConfigInitialized == IsSome(config)

\* Where a thread continues when a call of the config module returns r.
AfterCall(t, call, r) ==
    IF t = Main
    THEN IF call = "load_config_once"
         THEN (IF IsOk(r) THEN "m_check_init" ELSE "m_exit1")
         ELSE "m_report"
    ELSE IF t = Watcher
    THEN (IF IsOk(r) THEN "w_recv" ELSE "w_panicked")
    ELSE "idle"

Return(t, call, r) ==
    /\ pc' = [pc EXCEPT ![t] = AfterCall(t, call, r)]
    /\ ret' = [ret EXCEPT ![t] = r]

(* ------------------------------------------------------------------ *)
(* load_config_once(path): load, then initialize                       *)
(* ------------------------------------------------------------------ *)
BeginLoadOnce(t) ==
    /\ pc' = [pc EXCEPT ![t] = "load_once_io"]
    /\ ret' = [ret EXCEPT ![t] = NoResult]
    /\ UNCHANGED <<env, command, file, chan, config, lock, poisoned, loc, snap, lastAcquired>>

\* Mutant: initialize that overwrites a document already installed.
Initialize_Overwrites(t, doc) ==
    /\ config' = Some(doc)
    /\ Return(t, "load_config_once", Ok)

\* initialize(document): installs the first value, AlreadyInitialized otherwise.
Initialize(t, doc) ==
    IF IsSome(config)
    THEN /\ Return(t, "load_config_once", AlreadyInitialized)
         /\ UNCHANGED config
    ELSE /\ config' = Some(doc)
         /\ Return(t, "load_config_once", Ok)

\* The file read ends; on success the document is installed.
LoadOnceDone(t) ==
    /\ pc[t] = "load_once_io"
    /\ LET r == FromFile(file) IN
          IF IsOk(r)
          THEN Initialize(t, r.config)
          ELSE /\ Return(t, "load_config_once", r)
               /\ UNCHANGED config
    /\ UNCHANGED <<env, command, file, chan, lock, poisoned, loc, snap, lastAcquired>>

(* ------------------------------------------------------------------ *)
(* reload_config(path): load, then replace under the write lock        *)
(* ------------------------------------------------------------------ *)
\* Mutant: the write lock is taken before the file is read.
BeginReload_LockFirst(t) ==
    /\ pc' = [pc EXCEPT ![t] = "reload_io"]
    /\ ret' = [ret EXCEPT ![t] = NoResult]
    /\ lock' = [lock EXCEPT !.writer = Some(t)]
    /\ UNCHANGED <<env, command, file, config, poisoned, loc, snap, lastAcquired>>

BeginReload(t) ==
    /\ pc' = [pc EXCEPT ![t] = "reload_io"]
    /\ ret' = [ret EXCEPT ![t] = NoResult]
    /\ UNCHANGED <<env, command, file, config, lock, poisoned, loc, snap, lastAcquired>>

\* The file read ends: an error is returned, a document is kept for replace.
ReloadLoaded(t) ==
    /\ pc[t] = "reload_io"
    /\ LET r == FromFile(file) IN
          IF IsOk(r)
          THEN /\ loc' = [loc EXCEPT ![t] = Some(r.config)]
               /\ pc' = [pc EXCEPT ![t] = "reload_lock"]
               /\ UNCHANGED ret
          ELSE /\ Return(t, "reload_config", r)
               /\ UNCHANGED loc
    /\ UNCHANGED <<env, command, file, chan, config, lock, poisoned, snap, lastAcquired>>

\* replace(document), first half: the write lock is taken, or the state is
\* found uninitialized or poisoned.
ReloadAcquire(t) ==
    /\ pc[t] = "reload_lock"
    /\ IF ~IsSome(config)
       THEN /\ Return(t, "reload_config", NotInitialized)
            /\ loc' = [loc EXCEPT ![t] = None]
            /\ UNCHANGED <<lock, lastAcquired>>
       ELSE /\ RwLockCanWrite(lock)
            /\ IF poisoned
               THEN /\ Return(t, "reload_config", PoisonedState)
                    /\ loc' = [loc EXCEPT ![t] = None]
                    /\ UNCHANGED <<lock, lastAcquired>>
               ELSE /\ lock' = [lock EXCEPT !.writer = Some(t)]
                    /\ pc' = [pc EXCEPT ![t] = "reload_cs"]
                    /\ lastAcquired' = loc[t]
                    /\ UNCHANGED <<loc, ret>>
    /\ UNCHANGED <<env, command, file, chan, config, poisoned, snap>>

\* Mutant: the snapshots handed out alias the stored document, so the swap
\* rewrites them.
ReloadStore_Aliased(t) ==
    /\ pc[t] = "reload_cs"
    /\ config' = loc[t]
    /\ snap' = [u \in Threads |-> IF IsSome(snap[u]) THEN loc[t] ELSE snap[u]]
    /\ lock' = [lock EXCEPT !.writer = None]
    /\ loc' = [loc EXCEPT ![t] = None]
    /\ Return(t, "reload_config", Ok)
    /\ UNCHANGED <<env, command, file, chan, poisoned, lastAcquired>>

\* Mutant: the swap keeps the queries of the document it replaces in front of
\* the new ones.
ReloadStore_Accumulates(t) ==
    /\ pc[t] = "reload_cs"
    /\ config' = Some([Unwrap(loc[t]) EXCEPT
                         !.queries = Unwrap(config).queries \o @])
    /\ lock' = [lock EXCEPT !.writer = None]
    /\ loc' = [loc EXCEPT ![t] = None]
    /\ Return(t, "reload_config", Ok)
    /\ UNCHANGED <<env, command, file, chan, poisoned, snap, lastAcquired>>

\* replace(document), second half: the swap, and the guard is dropped.
ReloadStore(t) ==
    /\ pc[t] = "reload_cs"
    /\ config' = loc[t]
    /\ lock' = [lock EXCEPT !.writer = None]
    /\ loc' = [loc EXCEPT ![t] = None]
    /\ Return(t, "reload_config", Ok)
    /\ UNCHANGED <<env, command, file, chan, poisoned, snap, lastAcquired>>

\* A panic while the write guard is held: unwinding drops the guard, which
\* poisons the RwLock; the thread is gone.
WriterPanics(t) ==
    /\ pc[t] = "reload_cs"
    /\ poisoned' = TRUE
    /\ lock' = [lock EXCEPT !.writer = None]
    /\ loc' = [loc EXCEPT ![t] = None]
    /\ pc' = [pc EXCEPT ![t] = "panicked"]
    /\ UNCHANGED <<env, command, file, chan, config, snap, ret, lastAcquired>>

(* ------------------------------------------------------------------ *)
(* get_config(): a clone taken under the read lock                     *)
(* ------------------------------------------------------------------ *)
\* Mutant: an uninitialized state is answered with a default document.
GetConfig_DefaultWhenUninitialized(t) ==
    /\ IF ~IsSome(config)
       THEN /\ Return(t, "get_config", Ok)
            /\ snap' = [snap EXCEPT ![t] = Some(YetiiConfigOf(RawA))]
            /\ UNCHANGED <<lock, loc>>
       ELSE /\ RwLockCanRead(lock)
            /\ UNCHANGED snap
            /\ IF poisoned
               THEN /\ Return(t, "get_config", PoisonedState)
                    /\ UNCHANGED <<lock, loc>>
               ELSE /\ lock' = [lock EXCEPT !.readers = @ \cup {t}]
                    /\ loc' = [loc EXCEPT ![t] = config]
                    /\ pc' = [pc EXCEPT ![t] = "get_clone"]
                    /\ ret' = [ret EXCEPT ![t] = NoResult]
    /\ UNCHANGED <<env, command, file, chan, config, poisoned, lastAcquired>>

\* Mutant: a poisoned lock is read all the same (PoisonError::into_inner).
GetConfig_IgnoresPoison(t) ==
    /\ IF ~IsSome(config)
       THEN /\ Return(t, "get_config", NotInitialized)
            /\ UNCHANGED <<lock, loc>>
       ELSE /\ RwLockCanRead(lock)
            /\ lock' = [lock EXCEPT !.readers = @ \cup {t}]
            /\ loc' = [loc EXCEPT ![t] = config]
            /\ pc' = [pc EXCEPT ![t] = "get_clone"]
            /\ ret' = [ret EXCEPT ![t] = NoResult]
    /\ UNCHANGED <<env, command, file, chan, config, poisoned, snap, lastAcquired>>

\* The call: NotInitialized, PoisonedState, or the read lock is taken and the
\* clone starts (global_settings is copied first).
GetConfig(t) ==
    /\ IF ~IsSome(config)
       THEN /\ Return(t, "get_config", NotInitialized)
            /\ UNCHANGED <<lock, loc>>
       ELSE /\ RwLockCanRead(lock)
            /\ IF poisoned
               THEN /\ Return(t, "get_config", PoisonedState)
                    /\ UNCHANGED <<lock, loc>>
               ELSE /\ lock' = [lock EXCEPT !.readers = @ \cup {t}]
                    /\ loc' = [loc EXCEPT ![t] = config]
                    /\ pc' = [pc EXCEPT ![t] = "get_clone"]
                    /\ ret' = [ret EXCEPT ![t] = NoResult]
    /\ UNCHANGED <<env, command, file, chan, config, poisoned, snap, lastAcquired>>

\* The clone ends (the remaining fields are copied), the guard is dropped and
\* the snapshot is returned.
GetClone(t) ==
    /\ pc[t] = "get_clone"
    /\ snap' = [snap EXCEPT ![t] =
                  Some([Unwrap(config) EXCEPT
                          !.global_settings = Unwrap(loc[t]).global_settings])]
    /\ lock' = [lock EXCEPT !.readers = @ \ {t}]
    /\ loc' = [loc EXCEPT ![t] = None]
    /\ Return(t, "get_config", Ok)
    /\ UNCHANGED <<env, command, file, chan, config, poisoned, lastAcquired>>

(* ------------------------------------------------------------------ *)
(* main                                                                *)
(* ------------------------------------------------------------------ *)
\* The process is gone once main has returned or called exit.
ProcessAlive == pc[Main] \notin {"m_exit0", "m_exit1"}

\* init is handled first: no configuration is loaded for it.
MainInit ==
    /\ pc[Main] = "m_start"
    /\ command = "init"
    /\ pc' = [pc EXCEPT ![Main] = "m_exit0"]
    /\ UNCHANGED <<env, command, file, chan, config, lock, poisoned, loc, snap, ret, lastAcquired>>

MainLoadConfigOnce ==
    /\ pc[Main] = "m_start"
    /\ command # "init"
    /\ BeginLoadOnce(Main)

MainLoadOnceDone == LoadOnceDone(Main)

\* Mutant: the watcher is started for every command.
MainCheckInitialized_WatcherForAll ==
    /\ pc[Main] = "m_check_init"
    /\ pc' = [pc EXCEPT ![Main] =
                IF ~IsConfigInitialized THEN "m_exit1" ELSE "m_spawn"]
    /\ UNCHANGED <<env, command, file, chan, config, lock, poisoned, loc, snap, ret, lastAcquired>>

\* if !config::is_config_initialized() { exit(1) }
MainCheckInitialized ==
    /\ pc[Main] = "m_check_init"
    /\ pc' = [pc EXCEPT ![Main] =
                IF ~IsConfigInitialized THEN "m_exit1"
                ELSE IF command = "run" THEN "m_spawn" ELSE "m_commands"]
    /\ UNCHANGED <<env, command, file, chan, config, lock, poisoned, loc, snap, ret, lastAcquired>>

\* watch_config_file(path): the watcher thread is spawned.
MainStartWatcher ==
    /\ pc[Main] = "m_spawn"
    /\ pc' = [pc EXCEPT ![Main] = "m_commands", ![Watcher] = "w_init"]
    /\ UNCHANGED <<env, command, file, chan, config, lock, poisoned, loc, snap, ret, lastAcquired>>

\* going_through_commands: odbc only probes the drivers.
MainOdbc ==
    /\ pc[Main] = "m_commands"
    /\ command = "odbc"
    /\ pc' = [pc EXCEPT ![Main] = "m_exit0"]
    /\ UNCHANGED <<env, command, file, chan, config, lock, poisoned, loc, snap, ret, lastAcquired>>

\* going_through_commands: run and check-config call get_config().
MainGetConfig ==
    /\ pc[Main] = "m_commands"
    /\ command \in {"run", "check-config"}
    /\ GetConfig(Main)

MainGetClone == GetClone(Main)

\* The verdict main prints for run and check-config.
MainVerdict ==
    IF ~IsOk(ret[Main]) THEN "access_error"
    ELSE IF IsOk(Validate(Unwrap(snap[Main]))) THEN "valid" ELSE "invalid"

\* The snapshot is validated, the verdict printed, and main returns.
MainReport ==
    /\ pc[Main] = "m_report"
    /\ pc' = [pc EXCEPT ![Main] = "m_exit0"]
    /\ UNCHANGED <<env, command, file, chan, config, lock, poisoned, loc, snap, ret, lastAcquired>>

(* ------------------------------------------------------------------ *)
(* The watcher thread                                                  *)
(* ------------------------------------------------------------------ *)
\* The watch is registered and its notifications reach the channel.
Watching == pc[Watcher] \in {"w_recv", "reload_io", "reload_lock", "reload_cs"}

\* RecommendedWatcher::new(..).expect(..); watcher.watch(path, ..).expect(..)
WatcherSetup ==
    /\ ProcessAlive
    /\ pc[Watcher] = "w_init"
    /\ pc' = [pc EXCEPT ![Watcher] =
                IF file = FileAbsent THEN "w_panicked" ELSE "w_recv"]
    /\ UNCHANGED <<env, command, file, chan, config, lock, poisoned, loc, snap, ret, lastAcquired>>

\* Mutant: every event that is not an error starts reload_config.
WatcherRecv_AnyEvent ==
    /\ ProcessAlive
    /\ pc[Watcher] = "w_recv"
    /\ chan # <<>>
    /\ chan' = Tail(chan)
    /\ IF Head(chan) # "Error"
       THEN BeginReload(Watcher)
       ELSE UNCHANGED <<env, command, file, config, lock, poisoned, pc, loc, snap, ret, lastAcquired>>

\* while let Ok(event) = rx.recv(): a Modify event starts reload_config.
WatcherRecv ==
    /\ ProcessAlive
    /\ pc[Watcher] = "w_recv"
    /\ chan # <<>>
    /\ chan' = Tail(chan)
    /\ IF Head(chan) = "Modify"
       THEN BeginReload(Watcher)
       ELSE UNCHANGED <<env, command, file, config, lock, poisoned, pc, loc, snap, ret, lastAcquired>>

WatcherReloadLoaded == ProcessAlive /\ ReloadLoaded(Watcher)

WatcherReloadAcquire == ProcessAlive /\ ReloadAcquire(Watcher)

WatcherReloadStore == ProcessAlive /\ ReloadStore(Watcher)

(* ------------------------------------------------------------------ *)
(* The environment: the file changes, the notifier reports             *)
(* ------------------------------------------------------------------ *)
\* The file is rewritten or removed; a registered watch reports it.
WriteFile(c) ==
    /\ ProcessAlive
    /\ c # file
    /\ file' = c
    /\ IF Watching
       THEN /\ Len(chan) < MaxQueue
            /\ chan' = Append(chan, IF c = FileAbsent THEN "Other" ELSE "Modify")
       ELSE UNCHANGED chan
    /\ UNCHANGED <<env, command, config, lock, poisoned, pc, loc, snap, ret, lastAcquired>>

\* The notifier reports more than the changes: repeated Modify events,
\* events of other kinds, errors.
Notify(k) ==
    /\ ProcessAlive
    /\ Watching
    /\ Len(chan) < MaxQueue
    /\ chan' = Append(chan, k)
    /\ UNCHANGED <<env, command, file, config, lock, poisoned, pc, loc, snap, ret, lastAcquired>>

(* ------------------------------------------------------------------ *)
(* Other callers of the public functions                               *)
(* ------------------------------------------------------------------ *)
CallLoadConfigOnce(t) == pc[t] = "idle" /\ BeginLoadOnce(t)

CallReloadConfig(t) == pc[t] = "idle" /\ BeginReload(t) /\ UNCHANGED chan

CallGetConfig(t) == pc[t] = "idle" /\ GetConfig(t)

(* ------------------------------------------------------------------ *)
(* The loader, the validator and the overlay applied to a document     *)
(* ------------------------------------------------------------------ *)
\* YetiiConfig::from_file(Some(path))
CallFromFile ==
    /\ pc[Main] = "m_start"
    /\ LET r == FromFile(file) IN
          IF IsOk(r)
          THEN /\ loc' = [loc EXCEPT ![Main] = Some(r.config)]
               /\ ret' = [ret EXCEPT ![Main] = Ok]
               /\ pc' = [pc EXCEPT ![Main] = "loaded"]
          ELSE /\ ret' = [ret EXCEPT ![Main] = r]
               /\ pc' = [pc EXCEPT ![Main] = "load_failed"]
               /\ UNCHANGED loc
    /\ UNCHANGED <<env, command, file, chan, config, lock, poisoned, snap, lastAcquired>>

\* create_default_config(config_name), as the init command calls it
CallCreateDefaultConfig ==
    /\ pc[Main] = "m_start"
    /\ command = "init"
    /\ \E config_name \in ConfigNames :
          loc' = [loc EXCEPT ![Main] = Some(CreateDefaultConfig(config_name))]
    /\ ret' = [ret EXCEPT ![Main] = Ok]
    /\ pc' = [pc EXCEPT ![Main] = "created"]
    /\ UNCHANGED <<env, command, file, chan, config, lock, poisoned, snap, lastAcquired>>

\* YetiiConfig::validate(&cfg)
CallValidate ==
    /\ pc[Main] \in {"loaded", "created"}
    /\ ret' = [ret EXCEPT ![Main] = Validate(Unwrap(loc[Main]))]
    /\ pc' = [pc EXCEPT ![Main] = "validated"]
    /\ UNCHANGED <<env, command, file, chan, config, lock, poisoned, loc, snap, lastAcquired>>

\* cfg.for_environment(env)
CallForEnvironment ==
    /\ pc[Main] = "validated"
    /\ snap' = [snap EXCEPT ![Main] = Some(ForEnvironment(Unwrap(loc[Main]), env))]
    /\ pc' = [pc EXCEPT ![Main] = "resolved"]
    /\ UNCHANGED <<env, command, file, chan, config, lock, poisoned, loc, ret, lastAcquired>>

(* ------------------------------------------------------------------ *)
(* Specifications                                                      *)
(* ------------------------------------------------------------------ *)
\* The program: main, the watcher it spawns, and the file system.
Next ==
    \/ MainInit
    \/ MainLoadConfigOnce
    \/ MainLoadOnceDone
    \/ MainCheckInitialized
    \/ MainStartWatcher
    \/ MainOdbc
    \/ MainGetConfig
    \/ MainGetClone
    \/ MainReport
    \/ WatcherSetup
    \/ WatcherRecv
    \/ WatcherReloadLoaded
    \/ WatcherReloadAcquire
    \/ WatcherReloadStore
    \/ \E c \in FileContents : WriteFile(c)
    \/ \E k \in EventKinds : Notify(k)

Spec == Init /\ [][Next]_vars

\* The config module under several callers at once.
ApiInit ==
    /\ env = NoEnv
    /\ command = "run"
    /\ file \in ApiFileContents
    /\ InitShared

ApiNext ==
    \/ \E t \in Writers : CallLoadConfigOnce(t)
    \/ \E t \in Writers : LoadOnceDone(t)
    \/ \E t \in Writers : CallReloadConfig(t)
    \/ \E t \in Writers : ReloadLoaded(t)
    \/ \E t \in Writers : ReloadAcquire(t)
    \/ \E t \in Writers : ReloadStore(t)
    \/ \E t \in Writers : WriterPanics(t)
    \/ \E t \in Readers : CallGetConfig(t)
    \/ \E t \in Readers : GetClone(t)
    \/ \E c \in ApiFileContents : WriteFile(c)

ApiSpec == ApiInit /\ [][ApiNext]_vars

\* The loader, the validator and the overlay on the documents of LibInputs.
LibInit ==
    /\ \E input \in LibInputs : file = input[1] /\ env = input[2]
    /\ \/ command = "check-config"
       \/ command = "init" /\ file = FileAbsent
    /\ InitShared

LibNext ==
    \/ CallFromFile
    \/ CallCreateDefaultConfig
    \/ CallValidate
    \/ CallForEnvironment

LibSpec == LibInit /\ [][LibNext]_vars

(* ------------------------------------------------------------------ *)
(* Properties                                                          *)
(* ------------------------------------------------------------------ *)
InReload(t) == pc[t] \in {"reload_io", "reload_lock", "reload_cs"}

\* The reload of thread t ends in this step.
ReloadEnds(t) == InReload(t) /\ ~InReload(t)'

\* C1: a reload whose file cannot be read, cannot be parsed or fails
\* validation leaves the current configuration as it was, and initialized.
C1_FailedReloadKeepsConfig ==
    [][\A t \in Threads :
         (/\ ReloadEnds(t)
          /\ \/ pc[t] = "reload_io"
             \/ IsSome(loc[t]) /\ ~IsOk(Validate(Unwrap(loc[t]))))
         => (config' = config /\ IsSome(config'))]_vars

\* C4: whenever the state is initialized, validate() accepts the current
\* document.
C4_CurrentIsValid == IsSome(config) => IsOk(Validate(Unwrap(config)))

\* C10: a reload that failed leaves the watcher thread in its receive loop.
C10_WatcherSurvivesFailedReload ==
    ret[Watcher].kind \notin {"none", "Ok"} => pc[Watcher] # "w_panicked"

\* Thread t's call returns, or moves on, in this step.
Moves(t) == <<pc[t], ret[t], snap[t]>>' # <<pc[t], ret[t], snap[t]>>

\* Two documents that differ in global_settings and outside it.
DiffersThroughout(c, d) ==
    /\ c.global_settings # d.global_settings
    /\ c.databases # d.databases

\* C2: a snapshot handed to a reader is, in all fields, the document that was
\* current when the reader took the read lock and the one current when it
\* returns: never global_settings of one document with the rest of another.
C2_SnapshotIsWhole ==
    [][\A t \in Threads :
         (pc[t] = "get_clone" /\ pc'[t] # "get_clone")
         => (snap'[t] = loc[t] /\ snap'[t] = config /\ config' = config)]_vars

\* One reader holds the read lock in the middle of its clone, a writer waits
\* with a document that differs throughout from the current one, and another
\* reader has already been handed the current one.
C2_Witness ==
    \E r1 \in Readers, r2 \in Readers, w \in Writers :
        /\ pc[r1] = "get_clone"
        /\ pc[w] = "reload_lock"
        /\ DiffersThroughout(Unwrap(loc[w]), Unwrap(config))
        /\ ret[r2] = Ok
        /\ snap[r2] = config

\* C3: a step that replaces the current document changes no snapshot that
\* was handed out before it.
C3_ReplaceKeepsSnapshots ==
    [][(IsSome(config) /\ config' # config) => snap' = snap]_vars

\* A reader is back from get_config with a snapshot that replace has since
\* made stale, next to a reader whose snapshot is the current document.
C3_Witness ==
    \E r1 \in Readers, r2 \in Readers :
        /\ pc[r1] = "idle" /\ pc[r2] = "idle"
        /\ IsSome(snap[r1]) /\ IsSome(config)
        /\ DiffersThroughout(Unwrap(snap[r1]), Unwrap(config))
        /\ snap[r2] = config

C8_ReloadsSerialized ==
    /\ Cardinality({t \in Threads : pc[t] = "reload_cs"}) <= 1
    /\ (lock.writer = None /\ ~poisoned /\ IsSome(lastAcquired))
       => config = lastAcquired

\* Two reloads race with different documents: one is in its critical section
\* and about to swap, the other waits for the write lock.
C8_Witness ==
    \E w1 \in Writers, w2 \in Writers :
        /\ pc[w1] = "reload_cs"
        /\ pc[w2] = "reload_lock"
        /\ loc[w1] # loc[w2]
        /\ lastAcquired = loc[w1]
        /\ config # loc[w1]

C11_ReloadIdempotent ==
    (/\ pc[Watcher] = "w_recv"
     /\ chan = <<>>
     /\ ret[Watcher] = Ok
     /\ IsOk(FromFile(file)))
    => config = Some(FromFile(file).config)

\* An earlier reload installed the document of the file, and the watcher has
\* loaded the unchanged file again and is about to replace with it.
C11_Witness ==
    /\ pc[Watcher] = "reload_lock"
    /\ IsSome(lastAcquired)
    /\ lastAcquired = config
    /\ IsOk(FromFile(file))
    /\ config = Some(FromFile(file).config)
    /\ loc[Watcher] = config
    /\ Len(Unwrap(config).queries) > 0

(* ------------------------------------------------------------------ *)
(* Properties of the loader, the validator and the overlay             *)
(* ------------------------------------------------------------------ *)
\* The document that was loaded.
Loaded == Unwrap(loc[Main])

\* The checks of a query, in the order name, schedule, SQL, transform, endpoint.
QueryChecks(q) ==
    <<IF q.name = <<>> THEN MissingRequiredField("query.name") ELSE Ok,
      IF q.schedule = None THEN Ok ELSE ScheduleConfigValidate(Unwrap(q.schedule)),
      SqlQueryValidate(q.query),
      TransformConfigValidate(q.transform),
      EndpointConfigValidate(q.endpoint)>>

RECURSIVE AllQueryChecks(_)
AllQueryChecks(qs) ==
    IF qs = <<>> THEN <<>> ELSE QueryChecks(Head(qs)) \o AllQueryChecks(Tail(qs))

\* Every check of a document, in the order version, database, global settings
\* (environment, error handling, logging, security), queries, execution.
Checks(c) ==
    <<IF c.version = None THEN MissingRequiredField("version") ELSE Ok,
      DatabaseConfigValidate(c.databases),
      IF c.global_settings.environment \in {"development", "staging", "production"}
      THEN Ok ELSE InvalidDatabaseType(c.global_settings.environment),
      ErrorHandlingValidate(c.global_settings.error_handling),
      LoggingValidate(c.global_settings.logging),
      SecuritySettingsValidate(c.global_settings.security)>>
    \o AllQueryChecks(c.queries)
    \o <<ExecutionConfigValidate(c.execution)>>

RECURSIVE FirstError(_)
FirstError(rs) ==
    IF rs = <<>> THEN Ok
    ELSE IF IsOk(Head(rs)) THEN FirstError(Tail(rs)) ELSE Head(rs)

Violated(c) == {i \in DOMAIN Checks(c) : ~IsOk(Checks(c)[i])}

\* C12: validate() returns the error of the earliest violated check in the
\* order version, database, global settings (environment, error handling,
\* logging, security), each query in sequence (name, schedule, SQL, transform,
\* endpoint), execution; and Ok exactly when no check is violated.
C12_ValidateFailFastInOrder ==
    pc[Main] = "validated" => ret[Main] = FirstError(Checks(Loaded))

\* A document violating checks in the global settings, in a query and in the
\* execution policy was validated, and the error is the error-handling one.
C12_Witness ==
    /\ pc[Main] = "validated"
    /\ Cardinality(Violated(Loaded)) >= 4
    /\ {4, 5} \subseteq Violated(Loaded)
    /\ ret[Main] = InvalidTimeout(Some(11))

\* The environment name is a key of the loaded document's environments map.
EnvKnown ==
    IsSome(Loaded.environments) /\ env \in DOMAIN Unwrap(Loaded.environments)

\* The document for_environment returned.
Resolved == Unwrap(snap[Main])

\* C13: for a name in the environments map, each of global_settings,
\* databases and monitoring of the result is the override's value when the
\* override supplies one and the base's otherwise, whole; version, name,
\* description, queries, execution and environments are the base's.
C13_OverlayReplacesWholeFields ==
    (pc[Main] = "resolved" /\ EnvKnown) =>
        LET o == Unwrap(Loaded.environments)[env] IN
        /\ Resolved.global_settings =
              IF o.global_settings = None THEN Loaded.global_settings
              ELSE Unwrap(o.global_settings)
        /\ Resolved.databases =
              IF o.databases = None THEN Loaded.databases
              ELSE Unwrap(o.databases)
        /\ Resolved.monitoring =
              IF o.monitoring = None THEN Loaded.monitoring ELSE o.monitoring
        /\ Resolved.version = Loaded.version
        /\ Resolved.name = Loaded.name
        /\ Resolved.description = Loaded.description
        /\ Resolved.queries = Loaded.queries
        /\ Resolved.execution = Loaded.execution
        /\ Resolved.environments = Loaded.environments

\* prod overrides the global settings only: the result has the override's
\* global settings, environment tag included, and the base's databases and
\* monitoring.
C13_Witness ==
    /\ pc[Main] = "resolved"
    /\ env = "prod"
    /\ EnvKnown
    /\ LET o == Unwrap(Loaded.environments)[env] IN
          /\ IsSome(o.global_settings)
          /\ o.databases = None
          /\ o.monitoring = None
    /\ Loaded.global_settings.environment = "production"
    /\ Resolved.global_settings.environment = "development"
    /\ Resolved.global_settings.logging.level = "debug"
    /\ Resolved.databases = Loaded.databases
    /\ IsSome(Resolved.monitoring)

\* C14: for a name that is no key of the environments map, or a document
\* without a map, for_environment returns a document equal to the base, and
\* no error.
C14_UnknownEnvironmentIsBase ==
    (pc[Main] = "resolved" /\ ~EnvKnown) =>
        snap[Main] = Some(Loaded)

\* staging2 was resolved on a document whose map has prod and staging.
C14_Witness ==
    /\ pc[Main] = "resolved"
    /\ env = "staging2"
    /\ IsSome(Loaded.environments)
    /\ DOMAIN Unwrap(Loaded.environments) = {"prod", "staging"}
    /\ Resolved = Loaded

\* The file is a valid document that gives the required keys only.
ValidMinimalFile ==
    /\ file.kind = "yaml"
    /\ file.raw \in MinimalDocuments
    /\ file.raw.databases.port \in 1..65535

\* C15: a valid document giving only the required keys loads, validates, and
\* has the documented defaults: execution.mode "sequential", logging.level
\* "info", pool timeout 30 s, pool retry attempts 3, environment
\* "development", version "1.0.0", and every query enabled.
C15_MinimalDocumentGetsDefaults ==
    ValidMinimalFile =>
        /\ pc[Main] # "load_failed"
        /\ pc[Main] = "validated" => ret[Main] = Ok
        /\ pc[Main] # "m_start" =>
              /\ Loaded.execution.mode = "sequential"
              /\ Loaded.global_settings.logging.level = "info"
              /\ Loaded.databases.pool.timeout_seconds = Some(30)
              /\ Loaded.databases.pool.retry_attempts = Some(3)
              /\ Loaded.global_settings.environment = "development"
              /\ Loaded.version = Some("1.0.0")
              /\ \A i \in DOMAIN Loaded.queries :
                    Loaded.queries[i].enabled /\ Loaded.queries[i].transform.enabled

\* A minimal document with one query was loaded and validated.
C15_Witness ==
    /\ ValidMinimalFile
    /\ pc[Main] = "validated"
    /\ ret[Main] = Ok
    /\ Len(Loaded.queries) = 1
    /\ Loaded.databases.db_type = "oracle"
    /\ Loaded.execution.mode = "sequential"

\* The file is a document whose database.port is 0 or above 65535.
PortOutOfRange ==
    /\ file.kind = "yaml"
    /\ file.raw \in MinimalDocuments
    /\ file.raw.databases.port \notin 1..65535

\* C16: a document whose database.port is 0 or greater than 65535 is never
\* returned by load: the load fails.
C16_PortOutOfRangeIsRefused ==
    PortOutOfRange => pc[Main] \in {"m_start", "load_failed"}

\* The loaded document has two queries, exactly one of them with an empty
\* name, and violates no other check.
OneEmptyQueryName ==
    /\ Len(Loaded.queries) = 2
    /\ Cardinality({i \in 1..2 : Loaded.queries[i].name = <<>>}) = 1
    /\ Cardinality(Violated(Loaded)) = 1

\* C17: the error for a query with an empty name is a missing-required-field
\* error that identifies the index of the query: it is not the error of the
\* document that has the empty name at the other index.
C17_EmptyQueryNameNamesIndex ==
    (pc[Main] = "validated" /\ OneEmptyQueryName) =>
        /\ ret[Main].kind = "MissingRequiredField"
        /\ ret[Main] #
              Validate([Loaded EXCEPT
                          !.queries = <<Loaded.queries[2], Loaded.queries[1]>>])

\* The loaded document's only violation is a logging.format outside json,
\* plain, structured.
OnlyLoggingFormatInvalid ==
    /\ Loaded.global_settings.logging.format \notin {"json", "plain", "structured"}
    /\ Cardinality(Violated(Loaded)) = 1

\* C18: validation of a document with an invalid logging.format fails with
\* an error that carries the field and the value and whose kind is not the
\* one of an invalid database type.
C18_InvalidFormatIsInvalidEnum ==
    (pc[Main] = "validated" /\ OnlyLoggingFormatInvalid) =>
        /\ ~IsOk(ret[Main])
        /\ ret[Main].kind # "InvalidDatabaseType"
        /\ {"field", "value"} \subseteq DOMAIN ret[Main]

\* One of the six required strings of the loaded document is empty after
\* trimming.
BlankRequiredString ==
    \/ IsEmpty(Trim(Loaded.databases.name))
    \/ IsEmpty(Trim(Loaded.databases.host))
    \/ IsEmpty(Trim(Loaded.databases.database))
    \/ \E i \in DOMAIN Loaded.queries :
          \/ IsEmpty(Trim(Loaded.queries[i].name))
          \/ IsEmpty(Trim(Loaded.queries[i].query.sql))
          \/ IsEmpty(Trim(Loaded.queries[i].endpoint.url))

\* C19: validate() rejects a document in which database.name, database.host,
\* database.database, a query's name, a query's sql or an endpoint's url is
\* empty after trimming.
C19_BlankStringsAreRejected ==
    (pc[Main] = "validated" /\ BlankRequiredString) => ~IsOk(ret[Main])

\* C20: validate() accepts a pool only when the timeout_seconds it gives is in
\* 1..300 and the max_connections it gives is in 1..1000.
C20_PoolLimits ==
    (pc[Main] = "validated" /\ IsOk(ret[Main])) =>
        LET p == Loaded.databases.pool IN
        /\ IsSome(p.timeout_seconds) => Unwrap(p.timeout_seconds) \in 1..300
        /\ IsSome(p.max_connections) => Unwrap(p.max_connections) \in 1..1000

\* C21: validate() accepts error_handling only when on_query_error,
\* on_transform_error and on_endpoint_error are each one of stop,
\* log_and_continue, retry, and max_retries is at most 10.
C21_ErrorActionsInSet ==
    (pc[Main] = "validated" /\ IsOk(ret[Main])) =>
        LET e == Loaded.global_settings.error_handling IN
        /\ e.on_query_error \in {"stop", "log_and_continue", "retry"}
        /\ e.on_transform_error \in {"stop", "log_and_continue", "retry"}
        /\ e.on_endpoint_error \in {"stop", "log_and_continue", "retry"}
        /\ e.max_retries <= 10

\* The file is a document that is valid but for its queries' schedules.
ScheduleFile == file.kind = "yaml" /\ file.raw \in ScheduleDocuments

\* The queries of the loaded document that have a schedule.
Scheduled == {i \in DOMAIN Loaded.queries : IsSome(Loaded.queries[i].schedule)}

ScheduleAt(i) == Unwrap(Loaded.queries[i].schedule)

\* The cron string is not empty and has 5 or 6 whitespace-separated fields.
WellFormedCron(c) == c # <<>> /\ SplitWhitespaceLen(c) \in {5, 6}

\* The scheduled queries whose cron string is not well formed.
IllFormed == {i \in Scheduled : ~WellFormedCron(ScheduleAt(i).cron)}

\* C22: a query's schedule that is present and enabled is accepted by
\* validate() exactly when its cron string is non-empty and splits on
\* whitespace into 5 or 6 tokens; otherwise validate() fails with an
\* invalid-schedule error carrying that cron string.
C22_EnabledScheduleCron ==
    (pc[Main] = "validated" /\ ScheduleFile) =>
        /\ IsOk(ret[Main]) =>
              \A i \in Scheduled :
                 ScheduleAt(i).enabled => WellFormedCron(ScheduleAt(i).cron)
        /\ (\A i \in Scheduled : ScheduleAt(i).enabled) =>
              ret[Main] =
                 IF IllFormed = {} THEN Ok
                 ELSE InvalidSchedule(
                        ScheduleAt(CHOOSE i \in IllFormed :
                                      \A j \in IllFormed : i <= j).cron)

\* Two queries with enabled schedules were validated: the first has 6 fields
\* and is accepted, the second has 7 and its cron string is in the error.
C22_Witness ==
    /\ pc[Main] = "validated"
    /\ ScheduleFile
    /\ Scheduled = {1, 2}
    /\ ScheduleAt(1).enabled /\ ScheduleAt(2).enabled
    /\ SplitWhitespaceLen(ScheduleAt(1).cron) = 6
    /\ SplitWhitespaceLen(ScheduleAt(2).cron) = 7
    /\ ret[Main] = InvalidSchedule(CronOf(7))

\* C23: validate() accepts the execution policy only when mode is parallel
\* or sequential and global_timeout_minutes, when present, is greater than 0.
C23_ExecutionPolicy ==
    (pc[Main] = "validated" /\ IsOk(ret[Main])) =>
        /\ Loaded.execution.mode \in {"parallel", "sequential"}
        /\ IsSome(Loaded.execution.global_timeout_minutes) =>
              Unwrap(Loaded.execution.global_timeout_minutes) > 0

\* C24: check-config ends with status zero only when the document it
\* validated is valid; a document that fails validation ends it with a
\* non-zero status.
C24_CheckConfigExitStatus ==
    (command = "check-config" /\ pc[Main] = "m_exit0") => MainVerdict = "valid"

\* C25: a document validate() accepts has no two queries of the same name.
C25_QueryNamesUnique ==
    (pc[Main] = "validated" /\ IsOk(ret[Main])) =>
        \A i, j \in DOMAIN Loaded.queries :
           Loaded.queries[i].name = Loaded.queries[j].name => i = j

\* The mapping r with each of the keys K it does not give added as an empty
\* mapping.
WithEmpty(r, K) ==
    [k \in DOMAIN r \cup K |-> IF k \in DOMAIN r THEN r[k] ELSE <<>>]

\* A query with its transform and its endpoint's request given, empty when the
\* query does not give them.
QueryWithSections(q) ==
    LET t == WithEmpty(q, {"transform"}) IN
    [t EXCEPT !.endpoint = WithEmpty(q.endpoint, {"request"})]

\* The document r with every section that has defaults given, as an empty
\* mapping when r does not give it: global_settings and its error_handling,
\* logging and security, execution, the pool of the database, and the
\* transform and the request policy of each query.
WithSections(r) ==
    LET d == WithEmpty(r, {"global_settings", "execution"}) IN
    [d EXCEPT
       !.global_settings = WithEmpty(d.global_settings,
                                     {"error_handling", "logging", "security"}),
       !.databases = WithEmpty(r.databases, {"pool"}),
       !.queries = [i \in 1..Len(r.queries) |-> QueryWithSections(r.queries[i])]]

\* C26: the value every defaulted field of a loaded document gets is the one
\* it gets when its enclosing section is present with the field omitted:
\* loading a document and loading it with its absent sections given as empty
\* mappings return the same document.
C26_DefaultsSameWhenSectionAbsent ==
    (pc[Main] = "loaded" /\ file.kind = "yaml") =>
        Loaded = YetiiConfigOf(WithSections(file.raw))

\* A notification leaves the channel in this step.
Received == Len(chan') < Len(chan)

\* C27: the watcher receives a notification only while no reload of its own
\* is running, and takes the oldest one; a Modify starts one reload, an event
\* of another kind or an error starts none and changes nothing; and a reload
\* of the watcher starts only by receiving a Modify.
C27_OneReloadPerModify ==
    [][/\ Received =>
            /\ pc[Watcher] = "w_recv"
            /\ chan' = Tail(chan)
            /\ IF Head(chan) = "Modify"
               THEN pc'[Watcher] = "reload_io"
               ELSE /\ pc'[Watcher] = "w_recv"
                    /\ config' = config
       /\ (~InReload(Watcher) /\ InReload(Watcher)') =>
            /\ Received
            /\ Head(chan) = "Modify"]_vars

\* The watcher is in the reload a Modify started, and the next two
\* notifications, a Modify and an error, wait in the channel.
C27_Witness ==
    /\ pc[Watcher] = "reload_io"
    /\ ret[Watcher] = NoResult
    /\ chan = <<"Modify", "Error">>

\* C28: for init, main loads and initializes nothing and starts no watcher.
\* For the other commands the state is initialized by load_config_once before
\* main goes on to the initialization check, the watcher, the command and
\* get_config; a failed load_config_once ends the process with status 1, with
\* no watcher started and no get_config made.  The watcher runs only for run,
\* and only on an initialized state.
C28_LoadOnceBeforeAll ==
    /\ command = "init" =>
          /\ config = None
          /\ pc[Main] \in {"m_start", "m_exit0"}
          /\ pc[Watcher] = "w_off"
          /\ snap[Main] = None
    /\ pc[Main] \in {"m_check_init", "m_spawn", "m_commands", "get_clone", "m_report"}
          => IsSome(config)
    /\ (command # "init" /\ pc[Main] = "m_exit0") => IsSome(config)
    /\ (command # "init" /\ config = None
           /\ pc[Main] \notin {"m_start", "load_once_io"})
          => pc[Main] = "m_exit1"
    /\ pc[Main] = "m_exit1" =>
          /\ config = None
          /\ pc[Watcher] = "w_off"
          /\ snap[Main] = None
    /\ pc[Watcher] # "w_off" => (command = "run" /\ IsSome(config))
    /\ (IsSome(snap[Main]) \/ Main \in lock.readers) => IsSome(config)

\* run: load_config_once installed the document, the watcher was started and
\* is in a reload while main reads the configuration for the command.
C28_Witness ==
    /\ command = "run"
    /\ IsSome(config)
    /\ InReload(Watcher)
    /\ pc[Main] = "get_clone"

\* C29: validate() accepts the document create_default_config builds, for
\* every config name.
C29_ExampleDocumentIsValid ==
    (command = "init" /\ pc[Main] = "validated") => ret[Main] = Ok

\* The document built for the empty name, the one main gives, was validated
\* and accepted, its query's schedule, SQL and endpoint included.
C29_Witness ==
    /\ command = "init"
    /\ pc[Main] = "validated"
    /\ Loaded = CreateDefaultConfig("")
    /\ Len(Loaded.queries) = 1
    /\ SplitWhitespaceLen(Unwrap(Loaded.queries[1].schedule).cron) = 5
    /\ ret[Main] = Ok

\* The scheduled queries whose schedule is disabled and whose cron string
\* does not split into 5 or 6 fields.
DisabledIllFormed ==
    {i \in Scheduled :
        /\ ~ScheduleAt(i).enabled
        /\ SplitWhitespaceLen(ScheduleAt(i).cron) \notin {5, 6}}

\* C30: the token count of a present schedule's cron is checked also when the
\* schedule is disabled: such a query makes validate() fail with
\* InvalidSchedule; queries without a schedule pass the schedule step, so an
\* InvalidSchedule error always carries the cron of a present schedule.
C30_CronCheckedWhenDisabled ==
    (pc[Main] = "validated" /\ ScheduleFile) =>
        /\ DisabledIllFormed # {} => ret[Main].kind = "InvalidSchedule"
        /\ (IllFormed = DisabledIllFormed /\ DisabledIllFormed # {}) =>
              \E i \in DisabledIllFormed :
                 ret[Main] = InvalidSchedule(ScheduleAt(i).cron)
        /\ Scheduled = {} => ret[Main] = Ok
        /\ ret[Main].kind = "InvalidSchedule" =>
              \E i \in Scheduled : ret[Main] = InvalidSchedule(ScheduleAt(i).cron)

\* A query whose schedule is disabled and has a cron of 4 fields was
\* validated, after a query without a schedule, and rejected with that cron.
C30_Witness ==
    /\ pc[Main] = "validated"
    /\ ScheduleFile
    /\ Len(Loaded.queries) = 2
    /\ Scheduled = {2}
    /\ ~ScheduleAt(2).enabled
    /\ ScheduleAt(2).cron = CronOf(4)
    /\ ret[Main] = InvalidSchedule(CronOf(4))

====
